---- MODULE Spec2Model ----
(***************************************************************************)
(* VoiceText (LinguaFlow Live): the session lifecycle of src/App.tsx, its  *)
(* turn accumulator and its playback scheduler, as one state machine.      *)
(*                                                                         *)
(* Every handler of App.tsx runs on the one event thread.  A handler is    *)
(* one action up to its first await; what follows an await (the rest of    *)
(* stopSession after ctx.suspend(), the rest of startSession after each of *)
(* its awaits, the rest of onMessageReceived after generateImageContent,   *)
(* the .then of decodeAudioData) is an action of its own.  After an await  *)
(* of a browser or network operation other handlers may run before the     *)
(* continuation.  The reaction of a promise that is already settled is a   *)
(* microtask and runs before any other handler: stopSession called while   *)
(* the capture context is not running reaches no await, so it and its      *)
(* caller's .then are one action; decodeAudioData has no await, so its     *)
(* .then runs next after the onmessage that called it.                     *)
(*                                                                         *)
(* The transport (the @google/genai live session) is the environment.  It  *)
(* is assumed to behave as a WebSocket does: per session at most one       *)
(* onopen, messages only while open, at most one onerror, and nothing      *)
(* after onclose.  stopSession never closes a session (it only forgets     *)
(* sessionRef), so a session the program tore down still delivers events.  *)
(* The browser is assumed to support AudioWorklet.                         *)
(***************************************************************************)
EXTENDS Integers, Sequences, FiniteSets, TLC

\* ---------------------------------------------------------------- bounds
\* Sessions, starts in flight and armed reconnects, together (Spec).
MaxSessions == 3
\* Clicks on the start button (Spec).
MaxUserStarts == 2
\* The same two for SpecRetry: sessions enough for two chains of retries.
RetrySessions == 5
RetryUserStarts == 2
\* SpecTurn: sessions, clicks on start, messages delivered.
TurnSessions == 2
TurnUserStarts == 1
MaxTurnMsgs == 3
\* SpecPlay: sessions, clicks on start, messages delivered, ticks of the clock.
PlaySessions == 2
PlayUserStarts == 1
MaxFrames == 3
MaxClock == 2
\* stopSession calls suspended when the stop button is clicked once more.
MaxStops == 1
\* SpecCapture: input samples given to process(); the sample rates of the
\* capture context and the lengths of the blocks.
MaxFed == 6400
Rates == {16000, 44100, 48000}
BlockSizes == {100, 128}
\* SpecPcm: the samples converted are those within NearSamples steps of -1, 0
\* and 1, and OverSamples steps beyond -1 and 1; a step is 1 / SampleScale.
NearSamples == 40
OverSamples == 2
\* SpecLang: the language codes chosen from, and the messages delivered.
Langs == {"none", "zh"}
MaxLangMsgs == 1

\* ------------------------------------------------------ program constants
MAX_RETRIES == 3

DISCONNECTED == "disconnected"
CONNECTING == "connecting"
CONNECTED == "connected"
ERROR == "error"
ConnectionStatus == {DISCONNECTED, CONNECTING, CONNECTED, ERROR}

VARIABLES
  apiKey,               \* API_KEY is set
  status,               \* useState status
  errorMsg,             \* useState errorMsg, by kind of message
  retryCount,           \* retryCountRef
  reconnectTimeoutRef,  \* id of the timer last armed, 0 for null
  timers,               \* setTimeout callbacks not yet run: [id, cap]
  globalCtx,            \* globalAudioContextRef: "none", "running", "suspended"
  outputAudioContextRef,\* the output context exists
  starts,               \* startSession calls suspended at an await: [cap, pc, busy]
  stops,                \* stopSession calls suspended at ctx.suspend(), in order
  sessions,             \* sessions created by ai.live.connect: [cap, st, torn, dup]
  sessionRef,           \* index of the session in sessionRef, 0 for null
  mediaStreamRef,       \* mediaStreamRef is non-null
  workletNodeRef,       \* workletNodeRef (and sourceNodeRef) is non-null
  liveGraphs,           \* capture graphs (stream and nodes) created and not stopped
  currentTurnInput,     \* currentTurnInputRef, a sequence of characters
  currentTurnOutput,    \* currentTurnOutputRef
  transcripts,          \* useState transcripts
  procs,                \* onMessageReceived calls suspended at generateImageContent
  toolSent,             \* tool responses sent: [id, name, result, to, from]
  clock,                \* outputAudioContext.currentTime
  nextStartTime,        \* nextStartTimeRef
  audioSources,         \* audioSourcesRef: ids of the sources in the set
  decodes,              \* decodeAudioData promises whose .then or .catch has not run
  schedule,             \* sources started since the last flush: [id, start, dur]
  nMsgs,                \* messages delivered so far
  errRun,               \* onerror calls since retryCount was last set to 0
  nUserStarts,          \* clicks on the start button so far
  idle,                 \* a full teardown has completed and no click on start since
  processor,            \* the RecorderProcessor: [sampleRate, bufferIndex, chunks, fed]
  pcm,                  \* the sample converted last: [s, int16, out], s and out in
                        \* units of 1 / SampleScale
  selectedLang,         \* useState selectedLang, a language code
  last                  \* the handler that ran last: [op, sid, msg, live, res]

lifeVars == <<apiKey, status, errorMsg, retryCount, reconnectTimeoutRef, timers,
              globalCtx, outputAudioContextRef, starts, stops, sessions,
              sessionRef, mediaStreamRef, workletNodeRef, liveGraphs, errRun,
              nUserStarts, idle>>
textVars == <<currentTurnInput, currentTurnOutput, transcripts, procs, toolSent>>
playVars == <<clock, nextStartTime, audioSources, decodes, schedule, nMsgs>>
capVars == <<processor, pcm>>
uiVars == <<selectedLang>>
vars == <<lifeVars, textVars, playVars, capVars, uiVars, last>>

NoMsg == [inputTxt |-> <<>>, outputTxt |-> <<>>, calls |-> <<>>,
          turnComplete |-> FALSE, interrupted |-> FALSE, audio |-> 0]

\* live is the size of the playback live set the handler found, res what
\* generateImageContent returned to it.
Did(op, sid, msg) ==
  [op |-> op, sid |-> sid, msg |-> msg, live |-> Cardinality(audioSources),
   res |-> ""]

\* ------------------------------------------------------------ pure helpers
RECURSIVE TrimLeft(_)
TrimLeft(s) == IF s # <<>> /\ Head(s) = " " THEN TrimLeft(Tail(s)) ELSE s

RECURSIVE TrimRight(_)
TrimRight(s) ==
  IF s # <<>> /\ s[Len(s)] = " " THEN TrimRight(SubSeq(s, 1, Len(s) - 1)) ELSE s

\* String.prototype.trim
Trim(s) == TrimRight(TrimLeft(s))

\* A TranscriptItem; tag is the suffix of its id, the timestamp is left out.
Item(role, text, tag) == [role |-> role, text |-> text, tag |-> tag, isFinal |-> TRUE]

RemoveAt(seq, i) == SubSeq(seq, 1, i - 1) \o SubSeq(seq, i + 1, Len(seq))

\* A timer id no pending timer and no reference holds.
NewTimerId(tmrs, ref) ==
  CHOOSE n \in 1..(Cardinality(tmrs) + 2) : n # ref /\ \A t \in tmrs : t.id # n

\* No worklet node has been constructed; chunks are the lengths of the chunks
\* posted, fed the number of input samples process() was given.
NoProcessor == [sampleRate |-> 0, bufferIndex |-> 0, chunks |-> <<>>, fed |-> 0]

Init ==
  /\ apiKey \in BOOLEAN
  /\ status = DISCONNECTED
  /\ errorMsg = "null"
  /\ retryCount = 0
  /\ reconnectTimeoutRef = 0
  /\ timers = {}
  /\ globalCtx = "none"
  /\ outputAudioContextRef = FALSE
  /\ starts = <<>>
  /\ stops = <<>>
  /\ sessions = <<>>
  /\ sessionRef = 0
  /\ mediaStreamRef = FALSE
  /\ workletNodeRef = FALSE
  /\ liveGraphs = 0
  /\ currentTurnInput = <<>>
  /\ currentTurnOutput = <<>>
  /\ transcripts = <<>>
  /\ procs = <<>>
  /\ toolSent = <<>>
  /\ clock = 0
  /\ nextStartTime = 0
  /\ audioSources = {}
  /\ decodes = <<>>
  /\ schedule = <<>>
  /\ nMsgs = 0
  /\ errRun = 0
  /\ nUserStarts = 0
  /\ idle = FALSE
  /\ processor = NoProcessor
  /\ pcm = [s |-> 0, int16 |-> 0, out |-> 0]
  /\ selectedLang = "none"
  /\ last = [op |-> "init", sid |-> 0, msg |-> NoMsg, live |-> 0, res |-> ""]

\* ------------------------------------------------------------ stopSession
\* A forced flush that saves the model's text before the user's.
savePending_modelFirst(prev, input, output) ==
  LET pendingInput == Trim(input)
      pendingOutput == Trim(output)
  IN prev
     \o (IF pendingOutput # <<>>
         THEN <<Item("model", pendingOutput, "saved-output")>> ELSE <<>>)
     \o (IF pendingInput # <<>>
         THEN <<Item("user", pendingInput, "saved-input")>> ELSE <<>>)

\* The forced flush of stopSession: the transcripts after it.
savePending(prev, input, output) ==
  LET pendingInput == Trim(input)
      pendingOutput == Trim(output)
  IN prev
     \o (IF pendingInput # <<>>
         THEN <<Item("user", pendingInput, "saved-input")>> ELSE <<>>)
     \o (IF pendingOutput # <<>>
         THEN <<Item("model", pendingOutput, "saved-output")>> ELSE <<>>)

\* An end of stopSession that saves the pending text and keeps the buffers.
stopSessionRest_keeps(fullDisconnect, arm, cap, st, sess, tmrs, ref) ==
  /\ sessionRef' = 0
  /\ transcripts' = savePending(transcripts, currentTurnInput, currentTurnOutput)
  /\ currentTurnInput' = currentTurnInput
  /\ currentTurnOutput' = currentTurnOutput
  /\ status' = IF fullDisconnect THEN DISCONNECTED ELSE st
  /\ idle' = (fullDisconnect \/ idle)
  /\ sessions' = [i \in DOMAIN sess |-> [sess[i] EXCEPT !.torn = TRUE]]
  /\ IF arm
     THEN LET id == NewTimerId(tmrs, ref)
          IN /\ timers' = tmrs \cup {[id |-> id, cap |-> cap]}
             /\ reconnectTimeoutRef' = id
     ELSE /\ timers' = tmrs
          /\ reconnectTimeoutRef' = ref

\* stopSession from "5. Clean Session Refs" to its end, followed by the
\* caller's .then when there is one (arm: onerror's setTimeout of startSession).
\* st is the status before, sess the sessions, tmrs and ref the timers.
stopSessionRest(fullDisconnect, arm, cap, st, sess, tmrs, ref) ==
  /\ sessionRef' = 0
  /\ transcripts' = savePending(transcripts, currentTurnInput, currentTurnOutput)
  /\ currentTurnInput' = <<>>
  /\ currentTurnOutput' = <<>>
  /\ status' = IF fullDisconnect THEN DISCONNECTED ELSE st
  /\ idle' = (fullDisconnect \/ idle)
  /\ sessions' = [i \in DOMAIN sess |-> [sess[i] EXCEPT !.torn = TRUE]]
  /\ IF arm
     THEN LET id == NewTimerId(tmrs, ref)
          IN /\ timers' = tmrs \cup {[id |-> id, cap |-> cap]}
             /\ reconnectTimeoutRef' = id
     ELSE /\ timers' = tmrs
          /\ reconnectTimeoutRef' = ref

\* stopSession(fullDisconnect) called with status st and sessions sess: all of
\* it when the capture context is not running, and up to the await of
\* ctx.suspend() when it is.
stopSession(fullDisconnect, arm, cap, st, sess) ==
  LET cleared == {t \in timers : t.id # reconnectTimeoutRef}
  IN
  /\ mediaStreamRef' = FALSE
  /\ workletNodeRef' = FALSE
  /\ liveGraphs' = IF workletNodeRef THEN liveGraphs - 1 ELSE liveGraphs
  /\ audioSources' = {}
  /\ schedule' = <<>>
  /\ nextStartTime' = 0
  /\ globalCtx' = globalCtx
  /\ IF globalCtx = "running"
     THEN /\ stops' = Append(stops, [full |-> fullDisconnect, arm |-> arm,
                                     cap |-> IF arm THEN cap ELSE DISCONNECTED])
          /\ timers' = cleared
          /\ reconnectTimeoutRef' = 0
          /\ status' = st
          /\ sessions' = sess
          /\ UNCHANGED <<sessionRef, currentTurnInput, currentTurnOutput, transcripts,
                         idle>>
     ELSE /\ stops' = stops
          /\ stopSessionRest(fullDisconnect, arm, cap, st, sess, cleared, 0)

\* ctx.suspend() of the oldest suspended stopSession resolves.
StopFinish ==
  /\ stops # <<>>
  /\ LET h == Head(stops)
     IN stopSessionRest(h.full, h.arm, h.cap, status, sessions, timers,
                        reconnectTimeoutRef)
  /\ stops' = Tail(stops)
  /\ globalCtx' = "suspended"
  /\ last' = Did("stopFinish", 0, NoMsg)
  /\ UNCHANGED <<apiKey, errorMsg, retryCount, outputAudioContextRef, starts,
                 mediaStreamRef, workletNodeRef, liveGraphs, errRun, nUserStarts,
                 procs, toolSent, clock, nextStartTime, audioSources, decodes,
                 schedule, nMsgs>>
  /\ UNCHANGED <<capVars, uiVars>>

\* handleDisconnect, from the stop button (shown while status is CONNECTED).
handleDisconnect ==
  /\ retryCount' = 0
  /\ errRun' = 0
  /\ stopSession(TRUE, FALSE, status, status, sessions)

UserStop ==
  /\ status = CONNECTED
  /\ handleDisconnect
  /\ last' = Did("handleDisconnect", 0, NoMsg)
  /\ UNCHANGED <<apiKey, nUserStarts, errorMsg, outputAudioContextRef, starts,
                 procs, toolSent, clock, decodes, nMsgs>>
  /\ UNCHANGED <<capVars, uiVars>>

\* A handleLanguageChange that stops the session whatever the status is.
handleLanguageChange_always(code) ==
  /\ selectedLang' = code
  /\ handleDisconnect

\* handleLanguageChange(code): setSelectedLang, and handleDisconnect when the
\* status is CONNECTED; no startSession follows.
handleLanguageChange(code) ==
  /\ selectedLang' = code
  /\ IF status = CONNECTED
     THEN handleDisconnect
     ELSE UNCHANGED <<retryCount, errRun, status, idle, reconnectTimeoutRef,
                      timers, globalCtx, stops, sessions, sessionRef,
                      mediaStreamRef, workletNodeRef, liveGraphs,
                      currentTurnInput, currentTurnOutput, transcripts,
                      nextStartTime, audioSources, schedule>>

\* An entry of the language menu is clicked.
LanguageChange ==
  \E code \in Langs :
    /\ handleLanguageChange(code)
    /\ last' = Did("handleLanguageChange", 0, NoMsg)
    /\ UNCHANGED <<apiKey, nUserStarts, errorMsg, outputAudioContextRef, starts,
                   procs, toolSent, clock, decodes, nMsgs>>
    /\ UNCHANGED capVars

\* ----------------------------------------------------------- startSession
\* A session that is neither closed nor torn down by a completed stopSession.
Live(i) == sessions[i].st # "closed" /\ ~sessions[i].torn

LiveSessions == {i \in DOMAIN sessions : Live(i)}

\* A session is being set up or is up, and the status says so.
Busy ==
  /\ status \in {CONNECTING, CONNECTED}
  /\ \/ starts # <<>>
     \/ \E i \in LiveSessions : sessions[i].st \in {"connecting", "open"}

\* startSession without its credential test.
startSession_noGuard(cap) ==
  /\ errorMsg' = "null"
  /\ status' = CONNECTING
  /\ starts' = Append(starts,
       [cap |-> cap, busy |-> Busy,
        pc |-> IF globalCtx = "suspended" THEN "resume" ELSE "init"])
  /\ globalCtx' = IF globalCtx = "none" THEN "running" ELSE globalCtx

\* startSession up to its first await.  cap is the status its closure holds.
\* busy records whether a session was Connecting or Connected at the call.
startSession(cap) ==
  IF ~apiKey
  THEN /\ errorMsg' = "nokey"
       /\ UNCHANGED <<status, starts, globalCtx>>
  ELSE /\ errorMsg' = "null"
       /\ status' = CONNECTING
       /\ starts' = Append(starts,
            [cap |-> cap, busy |-> Busy,
             pc |-> IF globalCtx = "suspended" THEN "resume" ELSE "init"])
       /\ globalCtx' = IF globalCtx = "none" THEN "running" ELSE globalCtx

\* The start button: shown unless CONNECTED, disabled without a key and while
\* CONNECTING.
UserStart ==
  /\ status # CONNECTED
  /\ apiKey /\ status # CONNECTING
  /\ startSession(status)
  /\ nUserStarts' = nUserStarts + 1
  /\ idle' = FALSE
  /\ last' = Did("startSession", 0, NoMsg)
  /\ UNCHANGED <<apiKey, retryCount, reconnectTimeoutRef, timers,
                 outputAudioContextRef, stops, sessions, sessionRef,
                 mediaStreamRef, workletNodeRef, liveGraphs, errRun,
                 textVars, playVars>>
  /\ UNCHANGED <<capVars, uiVars>>

\* startSession called while API_KEY is not set: the test of the function
\* itself, which the disabled start button otherwise keeps from running.
StartCall ==
  /\ ~apiKey
  /\ startSession(status)
  /\ last' = Did("startSession", 0, NoMsg)
  /\ UNCHANGED <<apiKey, retryCount, reconnectTimeoutRef, timers,
                 outputAudioContextRef, stops, sessions, sessionRef,
                 mediaStreamRef, workletNodeRef, liveGraphs, errRun,
                 nUserStarts, idle, textVars, playVars>>
  /\ UNCHANGED <<capVars, uiVars>>

\* The reconnect timer runs startSession of the closure that armed it.
TimerFire ==
  \E t \in timers :
    /\ timers' = timers \ {t}
    /\ startSession(t.cap)
    /\ last' = Did("timer", 0, NoMsg)
    /\ UNCHANGED <<apiKey, idle, retryCount, reconnectTimeoutRef,
                   outputAudioContextRef, stops, sessions, sessionRef,
                   mediaStreamRef, workletNodeRef, liveGraphs, errRun, nUserStarts,
                   textVars, playVars>>
    /\ UNCHANGED <<capVars, uiVars>>

\* initAudioContext, outputAudioContext.resume() and addModule have resolved;
\* getUserMedia is requested.
StartInitDone ==
  \E i \in DOMAIN starts :
    /\ starts[i].pc \in {"init", "resume"}
    /\ globalCtx' = IF starts[i].pc = "resume" THEN "running" ELSE globalCtx
    /\ outputAudioContextRef' = TRUE
    /\ starts' = [starts EXCEPT ![i].pc = "mic"]
    /\ last' = Did("startInit", 0, NoMsg)
    /\ UNCHANGED <<apiKey, idle, status, errorMsg, retryCount, reconnectTimeoutRef,
                   timers, stops, sessions, sessionRef, mediaStreamRef,
                   workletNodeRef, liveGraphs, errRun, nUserStarts, textVars, playVars>>
    /\ UNCHANGED <<capVars, uiVars>>

\* getUserMedia has resolved: the graph is built and ai.live.connect is called.
StartMicDone ==
  \E i \in DOMAIN starts :
    /\ starts[i].pc = "mic"
    /\ mediaStreamRef' = TRUE
    /\ workletNodeRef' = TRUE
    /\ liveGraphs' = liveGraphs + 1
    /\ sessions' = Append(sessions,
         [cap |-> starts[i].cap, st |-> "connecting", torn |-> FALSE,
          dup |-> starts[i].busy])
    /\ starts' = RemoveAt(starts, i)
    /\ last' = Did("connect", Len(sessions) + 1, NoMsg)
    /\ UNCHANGED <<apiKey, idle, status, errorMsg, retryCount, reconnectTimeoutRef,
                   timers, globalCtx, outputAudioContextRef, stops, sessionRef,
                   errRun, nUserStarts, textVars, playVars>>
    /\ UNCHANGED <<capVars, uiVars>>

\* An await of startSession rejects: its catch.
StartFail ==
  \E i \in DOMAIN starts :
    /\ errorMsg' = "startfail"
    /\ stopSession(FALSE, FALSE, starts[i].cap, ERROR, sessions)
    /\ starts' = RemoveAt(starts, i)
    /\ last' = Did("startFail", 0, NoMsg)
    /\ UNCHANGED <<apiKey, retryCount, outputAudioContextRef, errRun, nUserStarts,
                   procs, toolSent, clock, decodes, nMsgs>>
    /\ UNCHANGED <<capVars, uiVars>>

\* workletNode.port.onmessage: the session the chunk is sent to, 0 when the
\* handler returns at its test of sessionRef.current.
portOnmessage == sessionRef

\* A chunk posted by the RecorderProcessor of a capture graph that is still
\* wired, in a running capture context, reaches the node's port.
PortMessage ==
  /\ liveGraphs > 0
  /\ globalCtx = "running"
  /\ last' = Did(IF portOnmessage = 0 THEN "portReturn" ELSE "sendRealtimeInput",
                 portOnmessage, NoMsg)
  /\ UNCHANGED <<lifeVars, textVars, playVars, capVars, uiVars>>

\* ------------------------------------------------- the session's callbacks
\* A closed session delivers nothing more: what it held is forgotten.
Closed == [cap |-> DISCONNECTED, st |-> "closed", torn |-> TRUE, dup |-> FALSE]

SetSt(i, st) ==
  [sessions EXCEPT ![i] = IF st = "closed" THEN Closed ELSE [@ EXCEPT !.st = st]]

\* An onopen that leaves retryCountRef as it is.
onopen_keepsCount(i) ==
  /\ status' = CONNECTED
  /\ sessionRef' = i
  /\ retryCount' = retryCount

onopen(i) ==
  /\ status' = CONNECTED
  /\ sessionRef' = i
  /\ retryCount' = 0

OnOpen ==
  \E i \in DOMAIN sessions :
    /\ sessions[i].st = "connecting"
    /\ sessions' = SetSt(i, "open")
    /\ onopen(i)
    /\ errRun' = 0
    /\ last' = Did("onopen", i, NoMsg)
    /\ UNCHANGED <<apiKey, nUserStarts, idle, errorMsg, reconnectTimeoutRef, timers,
                   globalCtx,
                   outputAudioContextRef, starts, stops, mediaStreamRef,
                   workletNodeRef, liveGraphs, textVars, playVars>>
    /\ UNCHANGED <<capVars, uiVars>>

\* onclose tests the status its closure holds, not the current one.
onclose(cap, sess) ==
  IF cap # DISCONNECTED
  THEN stopSession(TRUE, FALSE, cap, status, sess)
  ELSE /\ sessions' = sess
       /\ UNCHANGED <<status, idle, reconnectTimeoutRef, timers, globalCtx, stops,
                      sessionRef, mediaStreamRef, workletNodeRef, liveGraphs,
                      currentTurnInput, currentTurnOutput, transcripts,
                      nextStartTime, audioSources, schedule>>

OnClose ==
  \E i \in DOMAIN sessions :
    /\ sessions[i].st # "closed"
    /\ onclose(sessions[i].cap, SetSt(i, "closed"))
    /\ last' = Did("onclose", i, NoMsg)
    /\ UNCHANGED <<apiKey, errorMsg, retryCount, outputAudioContextRef, starts,
                   errRun, nUserStarts, procs, toolSent, clock, decodes, nMsgs>>
    /\ UNCHANGED <<capVars, uiVars>>

onerror(cap, sess) ==
  IF retryCount < MAX_RETRIES
  THEN /\ errorMsg' = "reconnecting"
       /\ retryCount' = retryCount + 1
       /\ stopSession(FALSE, TRUE, cap, CONNECTING, sess)
  ELSE /\ errorMsg' = "maxretries"
       /\ retryCount' = retryCount
       /\ stopSession(FALSE, FALSE, cap, ERROR, sess)

OnError ==
  \E i \in DOMAIN sessions :
    /\ sessions[i].st \in {"connecting", "open"}
    /\ onerror(sessions[i].cap, SetSt(i, "errored"))
    /\ errRun' = errRun + 1
    /\ last' = Did("onerror", i, NoMsg)
    /\ UNCHANGED <<apiKey, nUserStarts, outputAudioContextRef, starts,
                   procs, toolSent, clock, decodes, nMsgs>>
    /\ UNCHANGED <<capVars, uiVars>>

\* ------------------------------------------------------ onMessageReceived
\* What a message handler reads and writes, as one record.
Here ==
  [tr |-> transcripts, inp |-> currentTurnInput, out |-> currentTurnOutput,
   srcs |-> audioSources, next |-> nextStartTime, sched |-> schedule,
   procs |-> procs, sent |-> toolSent]

Set(s) ==
  /\ transcripts' = s.tr
  /\ currentTurnInput' = s.inp
  /\ currentTurnOutput' = s.out
  /\ audioSources' = s.srcs
  /\ nextStartTime' = s.next
  /\ schedule' = s.sched
  /\ procs' = s.procs
  /\ toolSent' = s.sent

\* A turn completion that commits a buffer of blanks as a turn of no text.
afterTurn_blank(m, s) ==
  IF ~m.turnComplete THEN s
  ELSE [s EXCEPT
         !.tr = @ \o (IF s.inp # <<>>
                      THEN <<Item("user", Trim(s.inp), "user")>> ELSE <<>>)
                  \o (IF s.out # <<>>
                      THEN <<Item("model", Trim(s.out), "model")>> ELSE <<>>),
         !.inp = <<>>,
         !.out = <<>>]

\* A turn completion that commits the buffers and leaves them as they are.
afterTurn_keeps(m, s) ==
  LET finalInput == Trim(s.inp)
      finalOutput == Trim(s.out)
  IN IF ~m.turnComplete THEN s
     ELSE [s EXCEPT
            !.tr = @ \o (IF finalInput # <<>>
                         THEN <<Item("user", finalInput, "user")>> ELSE <<>>)
                     \o (IF finalOutput # <<>>
                         THEN <<Item("model", finalOutput, "model")>> ELSE <<>>)]

\* if (message.serverContent?.turnComplete) { ... }
afterTurn(m, s) ==
  LET finalInput == Trim(s.inp)
      finalOutput == Trim(s.out)
  IN IF ~m.turnComplete THEN s
     ELSE [s EXCEPT
            !.tr = @ \o (IF finalInput # <<>>
                         THEN <<Item("user", finalInput, "user")>> ELSE <<>>)
                     \o (IF finalOutput # <<>>
                         THEN <<Item("model", finalOutput, "model")>> ELSE <<>>),
            !.inp = IF finalInput # <<>> THEN <<>> ELSE @,
            !.out = IF finalOutput # <<>> THEN <<>> ELSE @]

\* An interruption that archives the model's partial text.
afterInterrupt_commits(m, s) ==
  IF ~m.interrupted THEN s
  ELSE [s EXCEPT
         !.tr = @ \o (IF Trim(s.out) # <<>>
                      THEN <<Item("model", Trim(s.out), "model")>> ELSE <<>>),
         !.out = <<>>, !.srcs = {}, !.next = 0, !.sched = <<>>]

\* An interruption whose flush leaves the next start time as it was.
afterInterrupt_keepsNext(m, s) ==
  IF ~m.interrupted THEN s
  ELSE [s EXCEPT !.out = <<>>, !.srcs = {}, !.sched = <<>>]

\* if (message.serverContent?.interrupted) { ... }
afterInterrupt(m, s) ==
  IF ~m.interrupted THEN s
  ELSE [s EXCEPT !.out = <<>>, !.srcs = {}, !.next = 0, !.sched = <<>>]

\* The loop over functionCalls from the call at the head of calls on, and what
\* follows the loop.  A render_image call runs generateImageContent up to its
\* await and suspends the handler there.
RECURSIVE afterCalls(_, _, _, _)
afterCalls(sid, m, calls, s) ==
  IF calls = <<>> THEN afterInterrupt(m, afterTurn(m, s))
  ELSE IF Head(calls).name # "render_image" THEN afterCalls(sid, m, Tail(calls), s)
  ELSE [s EXCEPT
         !.tr = IF apiKey
                THEN Append(@, Item("model", Head(calls).prompt, "generating"))
                ELSE @,
         !.procs = Append(@, [sid |-> sid, m |-> m, calls |-> calls])]

\* onMessageReceived(message) up to its first await, or to its end.
onMessageReceived(sid, m, s) ==
  afterCalls(sid, m, m.calls,
             [s EXCEPT !.inp = @ \o m.inputTxt, !.out = @ \o m.outputTxt])

\* What generateImageContent returns, by what ai.models.generateContent did.
ImageResult(outcome) ==
  CASE outcome = "image" -> "Image generated successfully and displayed to the user."
    [] outcome = "noimage" -> "Failed to generate image."
    [] outcome = "throw" -> "Error occurred while generating image."
    [] OTHER -> "undefined"

\* generateImageContent resolves: the handler sends the tool response to the
\* session sessionRef holds now, and goes on.
ImageDone ==
  \E k \in DOMAIN procs :
    \E outcome \in IF apiKey THEN {"image", "noimage", "throw"} ELSE {"undefined"} :
      LET p == procs[k]
          fc == Head(p.calls)
          s0 == [Here EXCEPT
                  !.procs = RemoveAt(@, k),
                  !.tr = IF outcome = "image"
                         THEN Append(@, Item("model", fc.prompt, "image")) ELSE @,
                  !.sent = IF sessionRef # 0
                           THEN Append(@, [id |-> fc.id, name |-> fc.name,
                                           result |-> ImageResult(outcome),
                                           to |-> sessionRef, from |-> p.sid])
                           ELSE @]
      IN /\ Set(afterCalls(p.sid, p.m, Tail(p.calls), s0))
         /\ last' = [Did("imageDone", p.sid, p.m) EXCEPT !.res = ImageResult(outcome)]
         /\ UNCHANGED <<lifeVars, clock, decodes, nMsgs>>
         /\ UNCHANGED <<capVars, uiVars>>

\* An onmessage that starts a frame at time 0 when the frame before it is
\* still to end.
onmessage_restarts(sid, m) ==
  LET s == onMessageReceived(sid, m, Here)
      startTime == IF s.next > clock THEN 0 ELSE clock
  IN /\ Set(s)
     /\ decodes' = IF m.audio # 0 /\ outputAudioContextRef
                   THEN Append(decodes, [id |-> nMsgs + 1, startTime |-> startTime,
                                         len |-> m.audio])
                   ELSE decodes

\* An onmessage that starts every source at the current time of the clock.
onmessage_now(sid, m) ==
  LET s == onMessageReceived(sid, m, Here)
  IN /\ Set(s)
     /\ decodes' = IF m.audio # 0 /\ outputAudioContextRef
                   THEN Append(decodes, [id |-> nMsgs + 1, startTime |-> clock,
                                         len |-> m.audio])
                   ELSE decodes

\* onmessage: onMessageReceived(msg), not awaited, then the audio of the
\* message: its start time is computed now, the source is started in the .then
\* of decodeAudioData.
onmessage(sid, m) ==
  LET s == onMessageReceived(sid, m, Here)
      startTime == IF s.next > clock THEN s.next ELSE clock
  IN /\ Set(s)
     /\ decodes' = IF m.audio # 0 /\ outputAudioContextRef
                   THEN Append(decodes, [id |-> nMsgs + 1, startTime |-> startTime,
                                         len |-> m.audio])
                   ELSE decodes

OnMessage(m) ==
  \E i \in DOMAIN sessions :
    /\ sessions[i].st = "open"
    /\ onmessage(i, m)
    /\ nMsgs' = nMsgs + 1
    /\ last' = Did("onmessage", i, m)
    /\ UNCHANGED <<lifeVars, clock>>
    /\ UNCHANGED <<capVars, uiVars>>

\* ------------------------------------------------------------- playback
\* decodeAudioData of a payload of len bytes: new Int16Array throws on an odd
\* byte length; the duration is frameCount / sampleRate, in ticks of one frame.
DecodeFails(len) == len % 2 = 1

Duration(len) == len \div 2

\* A decode whose failure stops the playback and resets the schedule.
DecodeDone_failAborts ==
  /\ decodes # <<>>
  /\ LET d == Head(decodes)
     IN IF DecodeFails(d.len)
        THEN /\ last' = Did("decodeFailed", 0, NoMsg)
             /\ nextStartTime' = 0
             /\ audioSources' = {}
             /\ schedule' = <<>>
        ELSE /\ last' = Did("decoded", 0, NoMsg)
             /\ nextStartTime' = d.startTime + Duration(d.len)
             /\ audioSources' = audioSources \cup {d.id}
             /\ schedule' = Append(schedule, [id |-> d.id, start |-> d.startTime,
                                              dur |-> Duration(d.len)])
  /\ decodes' = Tail(decodes)
  /\ UNCHANGED <<lifeVars, textVars, clock, nMsgs>>
  /\ UNCHANGED <<capVars, uiVars>>

\* The .then (or .catch) of the oldest decodeAudioData promise runs.  The body
\* of decodeAudioData has no await, so the promise is settled when onmessage
\* returns and its reaction is a microtask: it runs before any other handler
\* (see NextPlay).
DecodeDone ==
  /\ decodes # <<>>
  /\ LET d == Head(decodes)
     IN IF DecodeFails(d.len)
        THEN /\ last' = Did("decodeFailed", 0, NoMsg)
             /\ UNCHANGED <<nextStartTime, audioSources, schedule>>
        ELSE /\ last' = Did("decoded", 0, NoMsg)
             /\ nextStartTime' = d.startTime + Duration(d.len)
             /\ audioSources' = audioSources \cup {d.id}
             /\ schedule' = Append(schedule, [id |-> d.id, start |-> d.startTime,
                                              dur |-> Duration(d.len)])
  /\ decodes' = Tail(decodes)
  /\ UNCHANGED <<lifeVars, textVars, clock, nMsgs>>
  /\ UNCHANGED <<capVars, uiVars>>

\* source.onended: a source that has played to its end leaves the set.
SourceEnded ==
  \E k \in DOMAIN schedule :
    /\ schedule[k].id \in audioSources
    /\ schedule[k].start + schedule[k].dur <= clock
    /\ audioSources' = audioSources \ {schedule[k].id}
    /\ last' = Did("onended", 0, NoMsg)
    /\ UNCHANGED <<lifeVars, textVars, clock, nextStartTime, decodes, schedule, nMsgs>>
    /\ UNCHANGED <<capVars, uiVars>>

\* The output clock advances.
Tick ==
  /\ clock' = clock + 1
  /\ last' = Did("tick", 0, NoMsg)
  /\ UNCHANGED <<lifeVars, textVars, nextStartTime, audioSources, decodes,
                 schedule, nMsgs>>
  /\ UNCHANGED <<capVars, uiVars>>

\* ------------------------------------------------------ RecorderProcessor
bufferSize == 2048
targetSampleRate == 16000

\* constructor(), in a context of sample rate r.
NewProcessor(r) == [sampleRate |-> r, bufferIndex |-> 0, chunks |-> <<>>, fed |-> 0]

\* flush(): the samples held are posted as one chunk.
flush(p) ==
  IF p.bufferIndex > 0
  THEN [p EXCEPT !.chunks = Append(@, p.bufferIndex), !.bufferIndex = 0]
  ELSE p

\* The loop of process() over a block of n samples from its k-th turn on:
\* i = k * ratio with ratio = sampleRate / 16000, and i < n is
\* k * sampleRate < n * 16000; idx = floor(i) is below n whenever i is.
RECURSIVE processLoop(_, _, _)
processLoop(p, n, k) ==
  IF k * p.sampleRate >= n * targetSampleRate THEN p
  ELSE LET held == [p EXCEPT !.bufferIndex = @ + 1]
       IN processLoop(IF held.bufferIndex >= bufferSize THEN flush(held) ELSE held,
                      n, k + 1)

\* process(inputs) for a block of n samples of channel 0.
process(p, n) ==
  IF n = 0 THEN p ELSE [processLoop(p, n, 0) EXCEPT !.fed = @ + n]

\* new AudioWorkletNode(inputCtx, 'recorder-processor')
Construct ==
  /\ processor = NoProcessor
  /\ \E r \in Rates : processor' = NewProcessor(r)
  /\ last' = Did("construct", 0, NoMsg)
  /\ UNCHANGED <<lifeVars, textVars, playVars, uiVars, pcm>>

\* The audio thread calls process() with the next block.
Process ==
  /\ processor # NoProcessor
  /\ \E n \in BlockSizes : processor' = process(processor, n)
  /\ last' = Did("process", 0, NoMsg)
  /\ UNCHANGED <<lifeVars, textVars, playVars, uiVars, pcm>>

\* ------------------------------------------------- createPcmBlob and back
Int16Scale == 32768
PosScale == 32767
\* A sample is a multiple of half a step of the 16-bit scale: the number a
\* stands for the float a / SampleScale, which a Float32Array holds exactly.
SampleScale == 2 * Int16Scale

Samples ==
  ((0 - SampleScale - OverSamples)..(NearSamples - SampleScale))
  \cup ((0 - NearSamples)..NearSamples)
  \cup ((SampleScale - NearSamples)..(SampleScale + OverSamples))

\* Math.max(-1, Math.min(1, data[i]))
Clamp(a) ==
  IF a > SampleScale THEN SampleScale
  ELSE IF a < 0 - SampleScale THEN 0 - SampleScale ELSE a

\* The integer part of x / SampleScale, towards zero.
Truncate(x) ==
  IF x >= 0 \/ x % SampleScale = 0
  THEN x \div SampleScale
  ELSE (x \div SampleScale) + 1

\* The store into an Int16Array: the integer part, modulo 2^16.
ToInt16(x) == ((Truncate(x) + Int16Scale) % (2 * Int16Scale)) - Int16Scale

\* A conversion that scales both signs by 32767.
createPcmBlob_symmetric(a) == ToInt16(Clamp(a) * PosScale)

\* createPcmBlob: the 16-bit integer stored for the sample a.
createPcmBlob(a) ==
  LET s == Clamp(a)
  IN ToInt16(IF s < 0 THEN s * Int16Scale ELSE s * PosScale)

\* int16.buffer read as bytes (arrayBufferToBase64), low byte first; btoa and
\* atob carry the bytes unchanged.
Bytes(v) ==
  LET u == (v + 2 * Int16Scale) % (2 * Int16Scale)
  IN <<u % 256, u \div 256>>

\* new Int16Array(buffer) over the bytes base64ToArrayBuffer returns.
FromBytes(b) ==
  LET u == b[1] + 256 * b[2]
  IN IF u >= Int16Scale THEN u - 2 * Int16Scale ELSE u

\* decodeAudioData: dataInt16[i] / 32768.0, in units of 1 / SampleScale.
decodeSample(v) == (v * SampleScale) \div Int16Scale

\* One sample goes through createPcmBlob and decodeAudioData.
Convert ==
  /\ \E a \in Samples :
       pcm' = [s |-> a, int16 |-> createPcmBlob(a),
               out |-> decodeSample(FromBytes(Bytes(createPcmBlob(a))))]
  /\ last' = Did("convert", 0, NoMsg)
  /\ UNCHANGED <<lifeVars, textVars, playVars, uiVars, processor>>

\* ------------------------------------------------------- the specification
\* The suspended stopSession calls of q whose .then arms the reconnect timer.
ArmsOf(q) == Cardinality({k \in DOMAIN q : q[k].arm})

Arms == ArmsOf(stops)

\* Sessions made and sessions that may still be made by what is pending.
Potential == Len(sessions) + Len(starts) + Cardinality(timers) + Arms

\* The lifecycle: the user, the timers, the awaits and the transport's
\* callbacks, with no message delivered.  The bounds stop the user and the
\* transport (clicks, errors), never a step of the program.
Lifecycle(maxSessions, maxUserStarts) ==
  \/ (nUserStarts < maxUserStarts /\ Potential < maxSessions /\ UserStart)
  \/ TimerFire
  \/ StartInitDone
  \/ StartMicDone
  \/ StartFail
  \/ OnOpen
  \/ OnClose
  \/ ((retryCount >= MAX_RETRIES \/ Potential < maxSessions) /\ OnError)
  \/ StopFinish
  \/ (Len(stops) < MaxStops /\ UserStop)

Next == Lifecycle(MaxSessions, MaxUserStarts)

Spec == Init /\ [][Next]_vars

\* The lifecycle with the program's own steps fair: a ctx.suspend() that was
\* called resolves, and a timer that was set and not cleared fires.
SpecLive == Init /\ [][Next]_vars /\ WF_vars(StopFinish) /\ WF_vars(TimerFire)

\* The lifecycle together with calls of startSession made without a key.
NextGuard == StartCall \/ Lifecycle(MaxSessions, MaxUserStarts)

SpecGuard == Init /\ [][NextGuard]_vars

NextRetry == Lifecycle(RetrySessions, RetryUserStarts)

SpecRetry == Init /\ [][NextRetry]_vars

Msg(i, o, c, t, x, a) ==
  [inputTxt |-> i, outputTxt |-> o, calls |-> c, turnComplete |-> t,
   interrupted |-> x, audio |-> a]

Call(id) == [id |-> id, name |-> "render_image", prompt |-> <<"p">>]

Other(id) == [id |-> id, name |-> "other", prompt |-> <<>>]

\* The messages of SpecTurn: text of either direction, blank text, a turn
\* completed, an interruption, a tool call alone and with a turn completed.
TurnMsgs ==
  { Msg(<<"h">>, <<>>, <<>>, FALSE, FALSE, 0),
    Msg(<<>>, <<"w">>, <<>>, FALSE, FALSE, 0),
    Msg(<<" ">>, <<" ">>, <<>>, FALSE, FALSE, 0),
    Msg(<<>>, <<>>, <<>>, TRUE, FALSE, 0),
    Msg(<<>>, <<>>, <<>>, FALSE, TRUE, 0),
    Msg(<<>>, <<>>, <<Call(1)>>, FALSE, FALSE, 0),
    Msg(<<>>, <<>>, <<Other(3), Call(2)>>, TRUE, FALSE, 0) }

NextTurn ==
  \/ Lifecycle(TurnSessions, TurnUserStarts)
  \/ (nMsgs < MaxTurnMsgs /\ \E m \in TurnMsgs : OnMessage(m))
  \/ ImageDone

SpecTurn == Init /\ [][NextTurn]_vars

\* The messages of SpecPlay: audio of one and of two frames, a payload of odd
\* length, an interruption alone and with audio.
PlayMsgs ==
  { Msg(<<>>, <<>>, <<>>, FALSE, FALSE, 2),
    Msg(<<>>, <<>>, <<>>, FALSE, FALSE, 4),
    Msg(<<>>, <<>>, <<>>, FALSE, FALSE, 3),
    Msg(<<>>, <<>>, <<>>, FALSE, TRUE, 0),
    Msg(<<>>, <<"w">>, <<>>, FALSE, TRUE, 2) }

\* An event loop that lets any handler run before the reaction of a promise.
NoMicrotask_never == TRUE

\* No reaction of a settled promise is waiting.
NoMicrotask == decodes = <<>>

NextPlay ==
  \/ (NoMicrotask /\ Lifecycle(PlaySessions, PlayUserStarts))
  \/ (NoMicrotask /\ nMsgs < MaxFrames /\ \E m \in PlayMsgs : OnMessage(m))
  \/ DecodeDone
  \/ (NoMicrotask /\ SourceEnded)
  \/ (NoMicrotask /\ clock < MaxClock /\ Tick)

SpecPlay == Init /\ [][NextPlay]_vars

\* The messages of SpecLang: text of both directions in one message.
LangMsgs == { Msg(<<"h">>, <<"w">>, <<>>, FALSE, FALSE, 0) }

NextLang ==
  \/ Lifecycle(MaxSessions, MaxUserStarts)
  \/ (nMsgs < MaxLangMsgs /\ \E m \in LangMsgs : OnMessage(m))
  \/ ((status = CONNECTED => Len(stops) < MaxStops) /\ LanguageChange)

SpecLang == Init /\ [][NextLang]_vars

\* The lifecycle together with the chunks of the capture graph.
NextSend == Lifecycle(MaxSessions, MaxUserStarts) \/ PortMessage

SpecSend == Init /\ [][NextSend]_vars

NextCapture ==
  \/ Construct
  \/ (processor.fed < MaxFed /\ Process)

SpecCapture == Init /\ [][NextCapture]_vars

NextPcm == Convert

SpecPcm == Init /\ [][NextPcm]_vars

\* ------------------------------------------------------------------ claims

\* C1 (retry bound).  errRun counts the onerror calls since retryCount was
\* last 0 (no onopen and no manual stop in between).  The first three of a run
\* each set the status to CONNECTING, make retryCount 1, 2, 3 and schedule one
\* reconnect (a timer, or the .then of a suspended stopSession that will arm
\* it); the fourth sets the status to ERROR; and from the fourth on no timer is
\* pending, none will be armed and no timer runs startSession.
RetryStep ==
  errRun' = errRun + 1 =>
    IF errRun < MAX_RETRIES
    THEN /\ status' = CONNECTING
         /\ retryCount' = errRun + 1
         /\ Cardinality(timers') + ArmsOf(stops')
              = Cardinality({t \in timers : t.id # reconnectTimeoutRef}) + Arms + 1
    ELSE /\ status' = ERROR
         /\ retryCount' = MAX_RETRIES

RetryExhausted ==
  errRun > MAX_RETRIES => timers = {} /\ Arms = 0 /\ last.op # "timer"

C1_RetryBound == [][RetryStep]_vars /\ []RetryExhausted

C1_Witness ==
  errRun = MAX_RETRIES + 1 /\ last.op = "onerror" /\ status = ERROR

\* C2 (one live session).  At most one session that connect created is
\* neither closed nor torn down by a completed stopSession.
C2_OneLiveSession == Cardinality(LiveSessions) <= 1

\* C3 (start guard).  No session was created by a startSession that was
\* called, by the button or by the reconnect timer, while a session was
\* already Connecting or Connected; and so no second capture graph is live.
C3_StartGuard ==
  /\ \A i \in DOMAIN sessions : ~sessions[i].dup
  /\ \A k \in DOMAIN starts : starts[k].busy => starts[k].pc # "mic"

\* C4 (no stray reconnect).  Once a full teardown has completed, and until the
\* user clicks start again, no reconnect timer is pending and none runs
\* startSession.
C4_NoStrayReconnect == idle => timers = {} /\ last.op # "timer"

\* C5 (remote close).  An onclose delivered while the status is CONNECTING,
\* CONNECTED or ERROR runs the full teardown (it sets DISCONNECTED at once, or
\* its stopSession(true) is suspended and will); delivered while the status is
\* DISCONNECTED it changes nothing of the program's state.
RemoteCloseStep ==
  last'.op = "onclose" =>
    IF status # DISCONNECTED
    THEN \/ status' = DISCONNECTED
         \/ \E k \in DOMAIN stops' : stops'[k].full
    ELSE UNCHANGED <<status, errorMsg, retryCount, reconnectTimeoutRef, timers,
                     globalCtx, stops, sessionRef, mediaStreamRef, workletNodeRef,
                     textVars, playVars>>

C5_RemoteClose == [][RemoteCloseStep]_vars

\* C6. Teardown text preservation: the step that completes a teardown (the
\* continuation of a stopSession suspended at ctx.suspend(), or a manual stop,
\* an onerror or a failed start whose stopSession runs in one piece) appends to
\* the history one finalized turn per buffer whose trimmed text is not empty,
\* the user's before the model's, leaves the earlier entries as they were, and
\* empties both buffers.
TeardownDone ==
  \/ Len(stops') < Len(stops)
  \/ (last'.op \in {"handleDisconnect", "onerror", "startFail"} /\ globalCtx # "running")

Saved(input, output) ==
  (IF Trim(input) # <<>>
   THEN <<[role |-> "user", text |-> Trim(input), tag |-> "saved-input",
           isFinal |-> TRUE]>> ELSE <<>>)
  \o (IF Trim(output) # <<>>
      THEN <<[role |-> "model", text |-> Trim(output), tag |-> "saved-output",
              isFinal |-> TRUE]>> ELSE <<>>)

TeardownStep ==
  TeardownDone =>
    /\ transcripts' = transcripts \o Saved(currentTurnInput, currentTurnOutput)
    /\ currentTurnInput' = <<>>
    /\ currentTurnOutput' = <<>>

HandlerDone ==
  \/ (last'.op = "onmessage" /\ Len(procs') = Len(procs))
  \/ (last'.op = "imageDone" /\ Len(procs') < Len(procs))

\* The text a buffer holds once the handler has appended the message's own.
Delivered(buf, txt) == IF last'.op = "onmessage" THEN buf \o txt ELSE buf

\* The entries a step appended to the history.
Appended == SubSeq(transcripts', Len(transcripts) + 1, Len(transcripts'))

IsText(it) == it.tag \notin {"generating", "image"}

\* C7. Interrupt: when the handler of a message flagged interrupted has run,
\* the output buffer is empty, the live set is empty and the next start time
\* is reset; unless the message also completes the turn, no text was appended
\* to the history and the input buffer holds what it held, with the message's
\* own input text.
InterruptStep ==
  (HandlerDone /\ last'.msg.interrupted) =>
    /\ currentTurnOutput' = <<>>
    /\ audioSources' = {}
    /\ nextStartTime' = 0
    /\ Len(transcripts') >= Len(transcripts)
    /\ SubSeq(transcripts', 1, Len(transcripts)) = transcripts
    /\ ~last'.msg.turnComplete =>
         /\ SelectSeq(Appended, IsText) = <<>>
         /\ currentTurnInput' = Delivered(currentTurnInput, last'.msg.inputTxt)

Committed(input, output) ==
  (IF Trim(input) # <<>>
   THEN <<[role |-> "user", text |-> Trim(input), tag |-> "user",
           isFinal |-> TRUE]>> ELSE <<>>)
  \o (IF Trim(output) # <<>>
      THEN <<[role |-> "model", text |-> Trim(output), tag |-> "model",
              isFinal |-> TRUE]>> ELSE <<>>)

TurnCompleteStep ==
  (HandlerDone /\ last'.msg.turnComplete) =>
    LET input == Delivered(currentTurnInput, last'.msg.inputTxt)
        output == Delivered(currentTurnOutput, last'.msg.outputTxt)
    IN /\ Len(transcripts') >= Len(transcripts)
       /\ SubSeq(transcripts', 1, Len(transcripts)) = transcripts
       /\ SelectSeq(Appended, IsText) = Committed(input, output)
       /\ Trim(input) # <<>> => currentTurnInput' = <<>>
       /\ Trim(input) = <<>> => currentTurnInput' = input
       /\ Trim(output) # <<>> => currentTurnOutput' = <<>>
       /\ (Trim(output) = <<>> /\ ~last'.msg.interrupted) => currentTurnOutput' = output

C8_TurnComplete == [][TurnCompleteStep]_vars

\* A turn completed with "h" heard and "w" said: one turn each, in this order.
C8_Witness ==
  /\ last.op = "onmessage"
  /\ last.msg.turnComplete
  /\ Len(transcripts) = 2
  /\ transcripts[1] = [role |-> "user", text |-> <<"h">>, tag |-> "user",
                       isFinal |-> TRUE]
  /\ transcripts[2] = [role |-> "model", text |-> <<"w">>, tag |-> "model",
                       isFinal |-> TRUE]
  /\ currentTurnInput = <<>>
  /\ currentTurnOutput = <<>>

\* C9. Messages are processed strictly in the order of their delivery: the
\* handler of a message starts only when the handler of every earlier message
\* has run to its end, so that no effect of a message follows an effect of a
\* later one.
InOrderStep == last'.op = "onmessage" => procs = <<>>

C9_InOrder == [][InOrderStep]_vars

\* C10. Gapless scheduling: of the sources started since the last flush, each
\* starts no earlier than the one before it ends, and a source is never
\* started at a time the output clock has passed.
NoOverlap ==
  \A k \in 2..Len(schedule) :
    schedule[k].start >= schedule[k - 1].start + schedule[k - 1].dur

ScheduleStep ==
  Len(schedule') > Len(schedule) => schedule'[Len(schedule')].start >= clock

C10_Gapless == []NoOverlap /\ [][ScheduleStep]_vars

\* Two sources back to back, the first started after the clock had advanced.
C10_Witness ==
  /\ last.op = "decoded"
  /\ Len(schedule) >= 2
  /\ schedule[1].start > 0
  /\ schedule[2].start = schedule[1].start + schedule[1].dur

\* The step runs a flush of the playback: the first part of a stopSession, or
\* the end of the handler of an interrupted message.
Flushes ==
  \/ last'.op \in {"handleDisconnect", "onerror", "startFail"}
  \/ (last'.op = "onclose" /\ sessions[last'.sid].cap # DISCONNECTED)
  \/ (HandlerDone /\ last'.msg.interrupted)

\* C11. A flush does not race against the scheduling of a frame: the flush
\* leaves the live set empty, and no frame delivered before it has its decode
\* pending, to be started after it (the only decode that may be pending is of
\* the frame the flushing message itself carries); every source in the live
\* set was started since the last flush.
NoRaceStep ==
  Flushes =>
    /\ audioSources' = {}
    /\ \A k \in DOMAIN decodes' : decodes'[k].id > nMsgs

StartedSinceFlush ==
  \A id \in audioSources : \E k \in DOMAIN schedule : schedule[k].id = id

C11_FlushNoRace == [][NoRaceStep]_vars /\ []StartedSinceFlush

\* A manual stop found a source playing and stopped it.
C11_Witness ==
  /\ last.op = "handleDisconnect"
  /\ last.live > 0
  /\ audioSources = {}
  /\ schedule = <<>>
  /\ decodes = <<>>

\* The playback is as a flush leaves it.
Flushed == audioSources = {} /\ nextStartTime = 0 /\ schedule = <<>>

\* C12. Flush idempotence: a flush, whatever the live set holds (nothing,
\* sources playing, sources that have played to their end), leaves the live
\* set empty and the next start time reset; a flush of a flushed playback
\* changes nothing of it; and the frame scheduled next after a flush starts at
\* the current time of the clock.
FlushIdemStep ==
  Flushes =>
    /\ audioSources' = {}
    /\ nextStartTime' = 0
    /\ schedule' = <<>>
    /\ Flushed => UNCHANGED <<audioSources, nextStartTime, schedule, clock>>

NextAfterFlushStep ==
  (last'.op = "onmessage" /\ Len(decodes') > Len(decodes) /\ nextStartTime' = 0)
    => decodes'[Len(decodes')].startTime = clock

C12_FlushIdempotent == [][FlushIdemStep]_vars /\ [][NextAfterFlushStep]_vars

\* An interruption flushed an empty live set after the clock had advanced, and
\* the frame of the same message is to start at the time of the clock.
C12_Witness ==
  /\ last.op = "onmessage"
  /\ last.msg.interrupted
  /\ last.live = 0
  /\ clock > 0
  /\ Flushed
  /\ Len(decodes) = 1
  /\ decodes[1].startTime = clock

\* C13. Decode error isolation: the failed decode of a frame of odd byte
\* length leaves the next start time, the live set, the sources started, the
\* session state and the transcript as they were; a pending decode is never
\* blocked, and the decode of a valid frame starts its source at the time the
\* frame was given.
DecodeFailStep ==
  last'.op = "decodeFailed" =>
    /\ Head(decodes).len % 2 = 1
    /\ decodes' = Tail(decodes)
    /\ UNCHANGED <<nextStartTime, audioSources, schedule, status, errorMsg,
                   retryCount, sessions, sessionRef, transcripts,
                   currentTurnInput, currentTurnOutput>>

DecodeOkStep ==
  last'.op = "decoded" =>
    /\ Head(decodes).len % 2 = 0
    /\ Head(decodes).id \in audioSources'
    /\ schedule' = Append(schedule, [id |-> Head(decodes).id,
                                     start |-> Head(decodes).startTime,
                                     dur |-> Head(decodes).len \div 2])

DecodeNotBlocked == decodes # <<>> => ENABLED DecodeDone

C13_DecodeIsolation ==
  [][DecodeFailStep]_vars /\ [][DecodeOkStep]_vars /\ []DecodeNotBlocked

\* Frames 1 and 3 play back to back; frame 2, of odd length, was dropped.
C13_Witness ==
  /\ last.op = "decoded"
  /\ nMsgs = 3
  /\ Len(schedule) = 2
  /\ schedule[1].id = 1
  /\ schedule[2].id = 3
  /\ schedule[2].start = schedule[1].start + schedule[1].dur

RECURSIVE Sum(_)
Sum(q) == IF q = <<>> THEN 0 ELSE Head(q) + Sum(Tail(q))

\* C14. Resample chunking: for a capture rate R not below the target rate T
\* and L input samples given to process() in one or several blocks, the samples
\* emitted (those of the chunks posted, with those still held for the next
\* chunk) number floor(L / (R / T)), and no chunk posted exceeds the capacity.
C14_ResampleChunking ==
  processor # NoProcessor =>
    /\ Sum(processor.chunks) + processor.bufferIndex
         = (processor.fed * targetSampleRate) \div processor.sampleRate
    /\ \A k \in DOMAIN processor.chunks : processor.chunks[k] <= bufferSize

\* A chunk has been posted at a capture rate above the target rate.
C14_Witness ==
  /\ processor.sampleRate > targetSampleRate
  /\ processor.chunks # <<>>

Abs(x) == IF x < 0 THEN 0 - x ELSE x

\* One step of the 16-bit scale, 1 / 32768, in units of 1 / SampleScale.
Step == SampleScale \div Int16Scale

InRange(a) == 0 - SampleScale <= a /\ a <= SampleScale

\* The statement of C15 as given: every sample of [-1, 1] comes back within
\* 1 / 32768 of itself.
C15_RoundTripOneStep ==
  (last.op = "convert" /\ InRange(pcm.s)) => Abs(pcm.s - pcm.out) <= Step

\* C15, amended.  PCM round trip: the integer stored always lies in
\* [-32768, 32767]; a sample outside [-1, 1] is stored as the extreme of its
\* side, 32767 or -32768; a negative sample of [-1, 1] comes back within
\* 1 / 32768 of itself, and a non-negative one within less than 2 / 32768,
\* never above itself.
C15_RoundTrip ==
  last.op = "convert" =>
    /\ 0 - Int16Scale <= pcm.int16 /\ pcm.int16 <= PosScale
    /\ pcm.s > SampleScale => pcm.int16 = PosScale
    /\ pcm.s < 0 - SampleScale => pcm.int16 = 0 - Int16Scale
    /\ (InRange(pcm.s) /\ pcm.s < 0) =>
         (pcm.s <= pcm.out /\ pcm.out - pcm.s < Step)
    /\ (InRange(pcm.s) /\ pcm.s >= 0) =>
         (pcm.out <= pcm.s /\ pcm.s - pcm.out < 2 * Step)

\* A sample just below 1 came back more than 1 / 32768 below itself.
C15_Witness ==
  /\ last.op = "convert"
  /\ pcm.s = SampleScale - 1
  /\ pcm.s - pcm.out > Step

\* C16. Tool-call contract: when the result of a render_image call has been
\* awaited, exactly one tool response with the id and the name of the call is
\* sent, and it is sent on the session that delivered the call.
ToolResponseStep ==
  last'.op = "imageDone" =>
    \E k \in DOMAIN procs :
      /\ procs[k].sid = last'.sid
      /\ procs[k].m = last'.msg
      /\ Len(toolSent') = Len(toolSent) + 1
      /\ SubSeq(toolSent', 1, Len(toolSent)) = toolSent
      /\ toolSent'[Len(toolSent')].id = Head(procs[k].calls).id
      /\ toolSent'[Len(toolSent')].name = Head(procs[k].calls).name
      /\ toolSent'[Len(toolSent')].to = procs[k].sid

C16_ToolContract == [][ToolResponseStep]_vars

\* A tool response was sent on another session than the one that asked.
C16_Witness ==
  \E k \in DOMAIN toolSent : toolSent[k].to # toolSent[k].from

FailureTexts == {"Failed to generate image.", "Error occurred while generating image."}

\* The turns the code appends are told by the suffix of their id; a turn of
\* any other kind would be one made for the failure.
CodeTags == {"user", "model", "saved-input", "saved-output", "generating", "image"}

IsFailureTurn(it) == it.tag \notin CodeTags

\* C17. Tool-call failure: when the image request throws or returns no image,
\* a turn carrying the failure text is appended to the history, a tool response
\* with that text is sent, and the status, retryCount and the error message
\* are left as they were.
ToolFailureStep ==
  (last'.op = "imageDone" /\ last'.res \in FailureTexts) =>
    /\ \E k \in DOMAIN Appended : IsFailureTurn(Appended[k])
    /\ Len(toolSent') = Len(toolSent) + 1
    /\ toolSent'[Len(toolSent')].result = last'.res
    /\ UNCHANGED <<status, retryCount, errorMsg>>

C17_ToolFailure == [][ToolFailureStep]_vars

\* An image request failed while the session that asked was the current one.
C17_Witness ==
  /\ last.op = "imageDone"
  /\ last.res \in FailureTexts
  /\ sessionRef = last.sid
  /\ toolSent # <<>>
  /\ toolSent[Len(toolSent)].result = last.res

\* A step of startSession's sequence fails: one of its awaits rejects, or the
\* connection it asked for fails before it is open.
StartFails ==
  \/ last'.op = "startFail"
  \/ (last'.op = "onerror" /\ sessions[last'.sid].st = "connecting")

\* C18. Start-flow failure: when a step of the start sequence fails, an error
\* message is recorded, the status becomes ERROR, retryCount is not changed,
\* no reconnect is scheduled, the partial teardown releases the microphone
\* stream and the encoder node at once, and the session handle is null when
\* the teardown has completed.
StartFailureStep ==
  StartFails =>
    /\ status' = ERROR
    /\ errorMsg' # "null"
    /\ retryCount' = retryCount
    /\ timers' \subseteq timers
    /\ ArmsOf(stops') = Arms
    /\ ~mediaStreamRef'
    /\ ~workletNodeRef'
    /\ (sessionRef' = 0 \/ Len(stops') > Len(stops))

TeardownEndStep == Len(stops') < Len(stops) => sessionRef' = 0

C18_StartFailure == [][StartFailureStep]_vars /\ [][TeardownEndStep]_vars

\* getUserMedia (or an earlier await) was rejected: status ERROR, the message
\* recorded, nothing retried.
C18_Witness ==
  /\ last.op = "startFail"
  /\ status = ERROR
  /\ errorMsg = "startfail"
  /\ retryCount = 0
  /\ timers = {}


\* A manual stop completes in this step: handleDisconnect ran through because
\* the capture context was not running, or the ctx.suspend() of a
\* stopSession(true) resolved.
ManualStopDone ==
  \/ (last'.op = "handleDisconnect" /\ globalCtx # "running")
  \/ (last'.op = "stopFinish" /\ Head(stops).full)

\* C19. Manual stop postcondition: when a manual stop completes the status is
\* DISCONNECTED, retryCount is 0, sessionRef is null, the microphone stream
\* and the encoder node are released, no playback source is live and both
\* partial-text buffers are empty.
ManualStopStep ==
  ManualStopDone =>
    /\ status' = DISCONNECTED
    /\ retryCount' = 0
    /\ sessionRef' = 0
    /\ ~mediaStreamRef'
    /\ ~workletNodeRef'
    /\ audioSources' = {}
    /\ currentTurnInput' = <<>>
    /\ currentTurnOutput' = <<>>

C19_ManualStop == [][ManualStopStep]_vars

\* A manual stop that needed ctx.suspend() has completed and left everything
\* released.
C19_Witness ==
  /\ last.op = "stopFinish"
  /\ idle
  /\ status = DISCONNECTED
  /\ retryCount = 0
  /\ sessionRef = 0
  /\ audioSources = {}
  /\ sessions # <<>>


\* startSession ran (from a call or from the reconnect timer) with no API_KEY.
StartWithoutKey == ~apiKey /\ last'.op \in {"startSession", "timer"}

\* C20. Credential guard: startSession without API_KEY sets the error message
\* and returns: the status is unchanged (no CONNECTING), no start sequence is
\* begun, no capture context, stream or node is acquired and no session is
\* created.
CredentialGuardStep ==
  StartWithoutKey =>
    /\ errorMsg' = "nokey"
    /\ status' = status
    /\ status' # CONNECTING
    /\ starts' = starts
    /\ globalCtx' = globalCtx
    /\ sessions' = sessions
    /\ UNCHANGED <<outputAudioContextRef, mediaStreamRef, workletNodeRef,
                   liveGraphs, sessionRef, retryCount, timers>>

C20_CredentialGuard == [][CredentialGuardStep]_vars

\* startSession has returned at its credential test.
C20_Witness ==
  /\ ~apiKey
  /\ last.op = "startSession"
  /\ errorMsg = "nokey"
  /\ status = DISCONNECTED
  /\ starts = <<>>
  /\ sessions = <<>>
  /\ globalCtx = "none"


\* C21. Retry counter: every onopen sets retryCount to 0; retryCount grows
\* only in an onerror that retries, and by one; an onerror that is one of the
\* first three since retryCount was last set to 0 (errRun < 3) retries rather
\* than giving up; and retryCount is within 0..3 in every state.
CounterStep ==
  /\ last'.op = "onopen" => retryCount' = 0
  /\ retryCount' > retryCount =>
       /\ last'.op = "onerror"
       /\ retryCount' = retryCount + 1
       /\ status' = CONNECTING
  /\ (last'.op = "onerror" /\ errRun < MAX_RETRIES) =>
       /\ retryCount' = retryCount + 1
       /\ status' = CONNECTING
       /\ errorMsg' = "reconnecting"

CounterBounded == retryCount \in 0..MAX_RETRIES

C21_RetryCounter == []CounterBounded /\ [][CounterStep]_vars

\* A reconnect succeeded: a session opened after another had failed, and the
\* counter is 0 again.
C21_Witness ==
  /\ last.op = "onopen"
  /\ retryCount = 0
  /\ \E j \in DOMAIN sessions : j < last.sid /\ sessions[j].st = "errored"


\* A retry is under way: an onerror has set CONNECTING and its message, and
\* the startSession of its reconnect timer has not run yet.
Retrying == status = CONNECTING /\ errorMsg = "reconnecting"

\* C22. Partial teardown: the completion of a stopSession(false), when its
\* ctx.suspend() resolves or at once when the context is not running, leaves
\* the status and retryCount as its caller set them and never sets
\* DISCONNECTED, and leaves the capture context suspended, not destroyed; and
\* during a retry the status leaves CONNECTING only in an onopen, an onerror or
\* a failed start.
PartialTeardownStep ==
  /\ (last'.op = "stopFinish" /\ ~Head(stops).full) =>
       /\ status' = status
       /\ retryCount' = retryCount
       /\ globalCtx' = "suspended"
  /\ (last'.op \in {"onerror", "startFail"} /\ globalCtx # "running") =>
       /\ status' \in {CONNECTING, ERROR}
       /\ globalCtx' = globalCtx

StaysConnectingStep ==
  (Retrying /\ status' # CONNECTING) =>
    last'.op \in {"onopen", "onerror", "startFail"}

C22_PartialTeardown == [][PartialTeardownStep]_vars /\ [][StaysConnectingStep]_vars

C22_PartialOnly == [][PartialTeardownStep]_vars

\* The partial teardown of a retry has completed: the context is suspended,
\* the status is still CONNECTING and the reconnect timer is armed.
C22_Witness ==
  /\ last.op = "stopFinish"
  /\ status = CONNECTING
  /\ retryCount = 1
  /\ globalCtx = "suspended"
  /\ timers # {}


\* C23. Language change: handleLanguageChange records the new language; when
\* the status is CONNECTED it does what handleDisconnect does (retryCount 0,
\* stopSession(true), which sets DISCONNECTED at once or when its ctx.suspend()
\* resolves) and calls no startSession; in any other status it changes nothing
\* but the language.
LanguageChangeStep ==
  last'.op = "handleLanguageChange" =>
    /\ selectedLang' \in Langs
    /\ starts' = starts
    /\ Len(sessions') = Len(sessions)
    /\ IF status = CONNECTED
       THEN /\ handleDisconnect
            /\ retryCount' = 0
            /\ ~mediaStreamRef' /\ ~workletNodeRef'
            /\ audioSources' = {}
            /\ timers' \subseteq timers
            /\ \/ status' = DISCONNECTED /\ sessionRef' = 0
               \/ stops' = Append(stops, [full |-> TRUE, arm |-> FALSE,
                                          cap |-> DISCONNECTED])
       ELSE UNCHANGED <<lifeVars, textVars, playVars>>

C23_LanguageChange == [][LanguageChangeStep]_vars

\* The language was changed while CONNECTED with text pending, and the stop it
\* started has completed: DISCONNECTED, the new language recorded, no start.
C23_Witness ==
  /\ selectedLang = "zh"
  /\ last.op = "stopFinish"
  /\ status = DISCONNECTED
  /\ sessionRef = 0
  /\ starts = <<>>
  /\ nUserStarts = 1
  /\ Len(transcripts) = 2


\* C24. Send guard: a chunk is sent only to the session sessionRef holds, and
\* that session is open and not torn down (its onopen has run; no onclose, no
\* onerror and no completed stopSession since); sessionRef never holds a
\* session that is closed, still connecting or torn down.
SendStep ==
  last'.op = "sendRealtimeInput" =>
    /\ sessionRef # 0
    /\ last'.sid = sessionRef
    /\ sessions[sessionRef].st = "open"
    /\ ~sessions[sessionRef].torn

HandleCurrent ==
  sessionRef # 0 =>
    /\ sessions[sessionRef].st \in {"open", "errored"}
    /\ ~sessions[sessionRef].torn

C24_SendGuard == [][SendStep]_vars /\ []HandleCurrent

\* A chunk was sent to the open session sessionRef holds.
C24_Witness ==
  /\ last.op = "sendRealtimeInput"
  /\ last.sid = sessionRef
  /\ sessions[sessionRef].st = "open"
  /\ status = CONNECTED


\* The step that completes a stopSession, whoever called it: the forced flush.
FlushDone ==
  \/ TeardownDone
  \/ (/\ last'.op = "onclose"
      /\ globalCtx # "running"
      /\ sessions[last'.sid].cap # DISCONNECTED)
  \/ (/\ last'.op = "handleLanguageChange"
      /\ globalCtx # "running"
      /\ status = CONNECTED)

\* The text entries of a role that a step appended to the history.
AppendedOf(role) ==
  SelectSeq(Appended, LAMBDA it : IsText(it) /\ it.role = role)

\* What a step may append for a buffer: nothing, or one entry holding the
\* buffer's trimmed text, with the buffer empty afterwards.
CommitsOnce(role, content, after) ==
  \/ AppendedOf(role) = <<>>
  \/ /\ Len(AppendedOf(role)) = 1
     /\ AppendedOf(role)[1].text = Trim(content)
     /\ Trim(content) # <<>>
     /\ after = <<>>

\* C25. Buffer clearing: a buffer that held text is empty after a step only if
\* the step is a turn completion or a forced flush, which appended the
\* buffer's trimmed text to the history when that is not empty, or, for the
\* model's buffer, an interruption; an interruption that is no turn completion
\* appends no text; and every text entry appended to the history is the
\* trimmed content of its buffer, appended once, in a step that empties the
\* buffer.
BufferStep ==
  LET input == Delivered(currentTurnInput, last'.msg.inputTxt)
      output == Delivered(currentTurnOutput, last'.msg.outputTxt)
      turn == HandlerDone /\ last'.msg.turnComplete
      interrupt == HandlerDone /\ last'.msg.interrupted
  IN /\ (currentTurnInput # <<>> /\ currentTurnInput' = <<>>) =>
          /\ turn \/ FlushDone
          /\ Trim(input) # <<>> => Len(AppendedOf("user")) = 1
     /\ (currentTurnOutput # <<>> /\ currentTurnOutput' = <<>>) =>
          /\ turn \/ FlushDone \/ interrupt
          /\ (Trim(output) # <<>> /\ (turn \/ FlushDone)) =>
               Len(AppendedOf("model")) = 1
          /\ (interrupt /\ ~turn) => AppendedOf("model") = <<>>
     /\ CommitsOnce("user", input, currentTurnInput')
     /\ CommitsOnce("model", output, currentTurnOutput')
     /\ SubSeq(transcripts', 1, Len(transcripts)) = transcripts

C25_BufferClearing == [][BufferStep]_vars

\* The user's text was committed by a turn completion, and the forced flush
\* of the stop that followed found the buffers empty and appended nothing.
C25_Witness ==
  /\ last.op = "stopFinish"
  /\ Len(transcripts) = 1
  /\ transcripts[1].tag = "user"
  /\ transcripts[1].text = <<"h">>
  /\ currentTurnInput = <<>>
  /\ currentTurnOutput = <<>>


\* C26. Playback never reorders: the sources started since the last flush are
\* in the schedule in the order their frames arrived, and a frame that arrived
\* earlier does not start later than one that arrived after it; a source is
\* added to the schedule at its end.
InArrivalOrder ==
  \A i, j \in DOMAIN schedule :
    i < j => /\ schedule[i].id < schedule[j].id
             /\ schedule[i].start <= schedule[j].start

AppendStep ==
  Len(schedule') > Len(schedule) =>
    /\ schedule' = Append(schedule, schedule'[Len(schedule')])
    /\ \A k \in DOMAIN decodes' :
         decodes'[k].id > schedule'[Len(schedule')].id

C26_NoReorder == []InArrivalOrder /\ [][AppendStep]_vars

\* Three frames were scheduled one after another, the clock having advanced
\* before the first.
C26_Witness ==
  /\ Len(schedule) = 3
  /\ schedule[1].start > 0
  /\ schedule[3].start > schedule[2].start
  /\ schedule[2].start > schedule[1].start


\* A startSession is in progress: one of its awaits is pending, or the session
\* it asked for has not opened yet.
StartInProgress ==
  \/ starts # <<>>
  \/ \E i \in DOMAIN sessions : sessions[i].st = "connecting"

\* C27. Disconnected means torn down: whenever the status is DISCONNECTED and
\* no startSession is in progress, sessionRef is null, no microphone stream or
\* encoder node is held or live, and the playback live set is empty.
C27_DisconnectedTornDown ==
  (status = DISCONNECTED /\ ~StartInProgress) =>
    /\ sessionRef = 0
    /\ ~mediaStreamRef
    /\ ~workletNodeRef
    /\ liveGraphs = 0
    /\ audioSources = {}

\* A full teardown has completed and left everything released.
C27_Witness ==
  /\ status = DISCONNECTED
  /\ ~StartInProgress
  /\ idle
  /\ last.op = "stopFinish"
  /\ sessionRef = 0
  /\ ~mediaStreamRef
  /\ audioSources = {}


\* C28. Teardown idempotence: the step that completes a stopSession appends
\* exactly the pending text of the buffers, once, and empties them, so that a
\* teardown completing after another (two of them suspended together at
\* ctx.suspend(), or one run after the other) with no text delivered in
\* between finds the buffers empty and appends nothing.
FlushOnceStep ==
  FlushDone =>
    /\ transcripts' = transcripts \o Saved(currentTurnInput, currentTurnOutput)
    /\ currentTurnInput' = <<>>
    /\ currentTurnOutput' = <<>>

SecondAppendsNothingStep ==
  (FlushDone /\ currentTurnInput = <<>> /\ currentTurnOutput = <<>>) =>
    transcripts' = transcripts

AfterFlushEmpty ==
  last.op = "stopFinish" => currentTurnInput = <<>> /\ currentTurnOutput = <<>>

C28_TeardownIdempotent ==
  /\ [][FlushOnceStep]_vars
  /\ [][SecondAppendsNothingStep]_vars
  /\ []AfterFlushEmpty

\* A full teardown and the partial teardown of an onerror were suspended
\* together at ctx.suspend() with text pending (the timer the second armed was
\* not cleared by the first); both have completed, and the text is in the
\* history once.
C28_Witness ==
  /\ last.op = "stopFinish"
  /\ stops = <<>>
  /\ status = DISCONNECTED
  /\ timers # {}
  /\ Len(sessions) = 1
  /\ sessions[1].st = "closed"
  /\ Len(transcripts) = 2
  /\ transcripts[1].tag = "saved-input"
  /\ transcripts[2].tag = "saved-output"


\* An onerror has just taken its retry branch.
RetryAsked ==
  last.op = "onerror" /\ status = CONNECTING /\ errorMsg = "reconnecting"

\* The reconnect timer has just run startSession.
Restarted == last.op = "timer"

\* A manual stop or another full teardown has been called or has completed.
FullTeardown ==
  \/ last.op = "handleDisconnect"
  \/ \E k \in DOMAIN stops : stops[k].full
  \/ status = DISCONNECTED
  \/ idle

\* C29. Retry liveness: an onerror that retries (retryCount below 3) is
\* followed by a startSession run by the reconnect timer, unless a manual stop
\* or full teardown comes in between; each such onerror asks for one
\* reconnect, and a timer runs startSession once.
C29_RetryLiveness ==
  /\ RetryAsked ~> (Restarted \/ FullTeardown)
  /\ [][(last'.op = "onerror" /\ retryCount < MAX_RETRIES) =>
          Cardinality(timers') + ArmsOf(stops')
            = Cardinality({t \in timers : t.id # reconnectTimeoutRef}) + Arms + 1]_vars
  /\ [][last'.op = "timer" =>
          Cardinality(timers') = Cardinality(timers) - 1]_vars

\* The reconnect timer of a retry has run startSession.
C29_Witness ==
  /\ last.op = "timer"
  /\ retryCount = 1
  /\ status = CONNECTING
  /\ starts # <<>>
  /\ timers = {}


\* A callback of a session that a completed stopSession had covered runs.
StaleCallback ==
  /\ last'.op \in {"onopen", "onmessage", "onclose", "onerror"}
  /\ sessions[last'.sid].torn

\* C30. Callbacks of a torn-down session: an onopen, onmessage, onclose or
\* onerror delivered by a session after a teardown has completed leaves the
\* status, retryCount, sessionRef, the two text buffers, the history and the
\* playback schedule unchanged.
StaleCallbackStep ==
  StaleCallback =>
    UNCHANGED <<status, retryCount, sessionRef, currentTurnInput,
                currentTurnOutput, transcripts, schedule, nextStartTime,
                audioSources, decodes>>

C30_StaleCallbacks == [][StaleCallbackStep]_vars

\* A session that a completed manual stop had covered delivered a message.
C30_Witness ==
  /\ last.op = "onmessage"
  /\ sessions[last.sid].torn
  /\ status = DISCONNECTED
  /\ sessionRef = 0

====
